---- MODULE Spec2Model ----
(***************************************************************************)
(* Model of the structure mapper and expression evaluator of               *)
(* hdf_scan_inspector (src/hdf_scan_inspector/hdf_functions.py).           *)
(*                                                                         *)
(* An HDF file is a graph of objects (groups and datasets) reached through *)
(* named links.  map_hdf / HdfMap2 walk it depth first and fill the map;   *)
(* eval_hdf evaluates an expression against the (file, map) pair.          *)
(***************************************************************************)
EXTENDS Integers, Sequences, FiniteSets, TLC

(***************************************************************************)
(* Strings.  Addresses, keys and expressions are character strings; the    *)
(* operators below are the str methods the code uses.                      *)
(***************************************************************************)

\* hdf_functions.py:24
SEP == "/"

\* s[i] as a one-character string
CharAt(s, i) == SubSeq(s, i, i)

\* str.replace(old, new) for a one-character old
RECURSIVE Replace(_, _, _)
Replace(s, old, new) ==
    IF Len(s) = 0 THEN ""
    ELSE (IF CharAt(s, 1) = old THEN new ELSE CharAt(s, 1))
             \o Replace(SubSeq(s, 2, Len(s)), old, new)

\* position of the first occurrence of c in s at or after i, 0 if none
RECURSIVE IndexOf(_, _, _)
IndexOf(s, c, i) ==
    IF i > Len(s) THEN 0
    ELSE IF CharAt(s, i) = c THEN i
    ELSE IndexOf(s, c, i + 1)

\* str.split(sep): the sequence of segments
RECURSIVE Split(_, _)
Split(s, sep) ==
    LET i == IndexOf(s, sep, 1)
    IN  IF i = 0 THEN <<s>>
        ELSE <<SubSeq(s, 1, i - 1)>> \o Split(SubSeq(s, i + 1, Len(s)), sep)

\* seq[-1]
Last(seq) == seq[Len(seq)]

\* `sub in s` for strings
Contains(s, sub) ==
    \E i \in 1..(Len(s) - Len(sub) + 1) : SubSeq(s, i, i + Len(sub) - 1) = sub

\* address_name: '.' -> '_', then the last segment; the 'value' branch
\* takes split(SEP)[-1] again
address_name(address) ==
    LET replaced == Replace(address, ".", "_")
        name     == Last(Split(replaced, SEP))
    IN  IF name = "value" THEN Last(Split(replaced, SEP)) ELSE name

(***************************************************************************)
(* The file.  A file is a function from object ids to objects.  A group    *)
(* has an ordered sequence of entries (its links, in iteration order); an  *)
(* entry has a key, a link kind, the object it resolves to (Null when it   *)
(* dangles) and, for soft and external links, the path the link names.     *)
(* attrs is the object's attribute dict: an attribute is present exactly   *)
(* when its name is in DOMAIN attrs.  fault says how reading the           *)
(* attributes fails with OSError: "" never, "all" on every access to       *)
(* obj.attrs, "read" when the value of a present attribute is read.        *)
(***************************************************************************)

Null == 0
Root == 1

NoAttrs == [x \in {} |-> ""]

Group(entries, attrs) ==
    [kind |-> "group", entries |-> entries, attrs |-> attrs,
     shape |-> << >>, value |-> "", fault |-> ""]

Dataset(shape, attrs, value) ==
    [kind |-> "dataset", entries |-> << >>, attrs |-> attrs,
     shape |-> shape, value |-> value, fault |-> ""]

\* a group whose attributes cannot be read
FaultyGroup(entries, attrs, fault) ==
    [Group(entries, attrs) EXCEPT !.fault = fault]

\* `name in obj.attrs` raises OSError
InAttrsFails(obj) == obj.fault = "all"

\* `obj.attrs[name]` raises OSError
ReadAttrFails(obj, name) ==
    obj.fault = "all" \/ (obj.fault = "read" /\ name \in DOMAIN obj.attrs)

Hard(key, target) ==
    [key |-> key, link |-> "hard", target |-> target, tpath |-> ""]

Soft(key, target, tpath) ==
    [key |-> key, link |-> "soft", target |-> target, tpath |-> tpath]

External(key, target, tpath) ==
    [key |-> key, link |-> "external", target |-> target, tpath |-> tpath]

\* the value of the 'axes' attribute: one string, or an array of strings
AxesStr(name) == [isstr |-> TRUE, names |-> <<name>>]
AxesList(names) == [isstr |-> FALSE, names |-> names]

\* Dataset.ndim
Ndim(obj) == Len(obj.shape)

\* Dataset.size: the product of the shape
RECURSIVE Product(_)
Product(shape) ==
    IF Len(shape) = 0 THEN 1 ELSE Head(shape) * Product(Tail(shape))

Size(obj) == Product(obj.shape)

\* a reference to an open object: the object and its h5py .name
Ref(obj, name) == [obj |-> obj, name |-> name]

\* the entry of group g with the given key, as a set (empty if none)
EntriesOf(f, g, key) ==
    {i \in 1..Len(f[g].entries) : f[g].entries[i].key = key}

\* path of a child reached through a hard link
ChildName(name, key) ==
    IF name = SEP THEN SEP \o key ELSE name \o SEP \o key

\* one step of path resolution from ref through segment seg
StepRef(f, ref, seg) ==
    IF ref.obj = Null THEN ref
    ELSE IF seg = "." \/ seg = "" THEN ref
    ELSE IF f[ref.obj].kind # "group" THEN Ref(Null, "")
    ELSE LET hits == EntriesOf(f, ref.obj, seg)
         IN  IF hits = {} THEN Ref(Null, "")
             ELSE LET e == f[ref.obj].entries[CHOOSE i \in hits : TRUE]
                  IN  IF e.target = Null THEN Ref(Null, "")
                      ELSE IF e.link = "hard"
                           THEN Ref(e.target, ChildName(ref.name, e.key))
                           ELSE Ref(e.target, e.tpath)

RECURSIVE WalkPath(_, _, _)
WalkPath(f, ref, segs) ==
    IF Len(segs) = 0 THEN ref
    ELSE WalkPath(f, StepRef(f, ref, Head(segs)), Tail(segs))

\* the object a path names, from group ref; an absolute path starts at
\* the root.  Null object when the path does not resolve.
Resolve(f, ref, path) ==
    IF Len(path) = 0 THEN Ref(Null, "")
    ELSE IF CharAt(path, 1) = SEP
         THEN WalkPath(f, Ref(Root, SEP), Split(path, SEP))
         ELSE WalkPath(f, ref, Split(path, SEP))

\* `path in hdf_file`
InFile(f, path) == Resolve(f, Ref(Root, SEP), path).obj # Null

\* hdf_file[path][()]: the value of the dataset at path
ReadValue(f, path) == f[Resolve(f, Ref(Root, SEP), path).obj].value

\* obj[path] on an open object: KeyError when the path does not resolve,
\* ValueError when obj is a dataset (a field name on a non-compound type)
GetItem(f, ref, path) ==
    IF f[ref.obj].kind = "dataset"
    THEN [exc |-> "ValueError", ref |-> Ref(Null, "")]
    ELSE LET r == Resolve(f, ref, path)
         IN  IF r.obj = Null THEN [exc |-> "KeyError", ref |-> r]
             ELSE [exc |-> "", ref |-> r]

(***************************************************************************)
(* NeXus default axes                                                      *)
(***************************************************************************)

\* hdf_functions.py:28-31
NX_LOCALNAME == "local_name"
NX_SIGNAL == "signal"
NX_AXES == "axes"

NoRef == Ref(Null, "")

Failed(exc) == [exc |-> exc, axes |-> << >>, signal |-> NoRef]

\* [nx_data[_axes] for _axes in names]: the first failing lookup raises
RECURSIVE GetItems(_, _, _)
GetItems(f, ref, names) ==
    IF Len(names) = 0 THEN [exc |-> "", refs |-> << >>]
    ELSE LET one == GetItem(f, ref, Head(names))
         IN  IF one.exc # "" THEN [exc |-> one.exc, refs |-> << >>]
             ELSE LET rest == GetItems(f, ref, Tail(names))
                  IN  IF rest.exc # "" THEN rest
                      ELSE [exc |-> "", refs |-> <<one.ref>> \o rest.refs]

\* the data group of the entry: entry.attrs['default'], else 'measurement'
NxDataOf(f, nx_entry) ==
    IF InAttrsFails(f[nx_entry.obj]) \/ ReadAttrFails(f[nx_entry.obj], "default")
    THEN [exc |-> "OSError", ref |-> Ref(Null, "")]
    ELSE GetItem(f, nx_entry,
                 IF "default" \in DOMAIN f[nx_entry.obj].attrs
                 THEN f[nx_entry.obj].attrs["default"] ELSE "measurement")

\* the axes and signal datasets of the data group
NxFields(f, nx_data) ==
    IF ReadAttrFails(f[nx_data.obj], NX_AXES) THEN Failed("OSError")
    ELSE IF NX_AXES \notin DOMAIN f[nx_data.obj].attrs THEN Failed("KeyError")
    ELSE LET axes == GetItems(f, nx_data, f[nx_data.obj].attrs[NX_AXES].names)
         IN  IF axes.exc # "" THEN Failed(axes.exc)
             ELSE IF ReadAttrFails(f[nx_data.obj], NX_SIGNAL)
                  THEN Failed("OSError")
             ELSE IF NX_SIGNAL \notin DOMAIN f[nx_data.obj].attrs
                  THEN Failed("KeyError")
             ELSE LET sig == GetItem(f, nx_data,
                                     f[nx_data.obj].attrs[NX_SIGNAL])
                  IN  IF sig.exc # "" THEN Failed(sig.exc)
                      ELSE [exc |-> "", axes |-> axes.refs,
                            signal |-> sig.ref]

\* get_nexus_axes_datasets: the exception it raises, or the axes datasets
\* and the signal dataset.  next(iter(keys())) of a file without children
\* raises StopIteration.
get_nexus_axes_datasets(f) ==
    LET root == Ref(Root, SEP)
    IN  IF "default" \notin DOMAIN f[Root].attrs /\ Len(f[Root].entries) = 0
        THEN Failed("StopIteration")
        ELSE LET key == IF "default" \in DOMAIN f[Root].attrs
                        THEN f[Root].attrs["default"]
                        ELSE f[Root].entries[1].key
                 nx_entry == GetItem(f, root, key)
             IN  IF nx_entry.exc # "" THEN Failed(nx_entry.exc)
                 ELSE LET nx_data == NxDataOf(f, nx_entry.ref)
                      IN  IF nx_data.exc # "" THEN Failed(nx_data.exc)
                          ELSE NxFields(f, nx_data.ref)

(***************************************************************************)
(* Dicts                                                                   *)
(***************************************************************************)

EmptyDict == << >>

\* d[k] = v
Put(d, k, v) == [x \in DOMAIN d \cup {k} |-> IF x = k THEN v ELSE d[x]]

\* {**a, **b}
Overlay(a, b) ==
    [x \in DOMAIN a \cup DOMAIN b |-> IF x \in DOMAIN b THEN b[x] ELSE a[x]]

\* the values of a dict
Range(d) == {d[x] : x \in DOMAIN d}

(***************************************************************************)
(* The files the map is built on.  Entries are listed in h5py's iteration  *)
(* order (by name).  Object 1 is the root group.                           *)
(***************************************************************************)

\* dataset shapes: a scalar, 1-D arrays of 1, 3 and 100 elements, an image
\* stack of 3 elements
Shapes == {<< >>, <<1>>, <<3>>, <<100>>, <<3, 1, 1>>}

\* optional attribute: no attribute for the value ""
Attr(name, val) == IF val = "" THEN NoAttrs ELSE [x \in {name} |-> val]

\* /entry1/measurement/{w,x,y,z} with every combination of shapes; the
\* data group names x as axes and y as signal
ShapeFiles ==
    { << Group(<<Hard("entry1", 2)>>, NoAttrs),
         Group(<<Hard("measurement", 3)>>, [NX_class |-> "NXentry"]),
         Group(<<Hard("w", 4), Hard("x", 5), Hard("y", 6), Hard("z", 7)>>,
               [NX_class |-> "NXdata", signal |-> "y", axes |-> AxesStr("x")]),
         Dataset(sw, NoAttrs, "v4"),
         Dataset(sx, NoAttrs, "v5"),
         Dataset(sy, NoAttrs, "v6"),
         Dataset(sz, NoAttrs, "v7") >> :
      sw \in Shapes, sx \in Shapes, sy \in Shapes, sz \in Shapes }

\* colliding names: /entry1/<kA>, /entry1/pos/value and a root dataset
\* /<kR>, with and without local_name attributes
NameFiles ==
    { << Group(<<Hard("entry1", 2), Hard(kR, 3)>>, NoAttrs),
         Group(<<Hard(kA, 4), Hard("pos", 5)>>, NoAttrs),
         Dataset(sR, Attr(NX_LOCALNAME, lR), "v3"),
         Dataset(sA, Attr(NX_LOCALNAME, lA), "v4"),
         Group(<<Hard("value", 6)>>, [NX_class |-> "NXpositioner"]),
         Dataset(sV, Attr(NX_LOCALNAME, lV), "v6") >> :
      kR \in {"eta", "x"}, sR \in {<< >>, <<3>>},
      lR \in {"", "a.b"},
      kA \in {"eta", "a.b"}, sA \in {<< >>, <<3>>, <<100>>},
      lA \in {"", "eta.eta", "pos.value"},
      sV \in {<< >>, <<3>>}, lV \in {"", "eta"} }

\* a link /link of each kind to a dataset, a group or nothing, and a link
\* /entry1/g/up back to an ancestor group.  Objects 6 and 7 live in
\* another file and are reached through external links only.
LinkTargets ==
    { Hard("link", 4), Hard("link", 3),
      Soft("link", 4, "/entry1/d"), Soft("link", 3, "/entry1/g"),
      Soft("link", Null, "/entry1/nope"),
      External("link", 6, "/entry1/d"), External("link", 6, "/other/d"),
      External("link", 7, "/other"), External("link", Null, "/other/d") }

UpLinks ==
    { << >>, <<Soft("up", 2, "/entry1")>>, <<Hard("up", 2)>>,
      <<Soft("up", Root, "/")>> }

LinkFiles ==
    { << Group(<<Hard("entry1", 2), link>>, NoAttrs),
         Group(<<Hard("d", 4), Hard("g", 3)>>, [NX_class |-> "NXentry"]),
         Group(<<Hard("e", 5)>> \o up, NoAttrs),
         Dataset(<<3>>, NoAttrs, "v4"),
         Dataset(se, NoAttrs, "v5"),
         Dataset(<<3>>, NoAttrs, "v6"),
         Group(<<Hard("d", 6)>>, NoAttrs) >> :
      link \in LinkTargets, up \in UpLinks, se \in {<< >>, <<3>>} }

\* the NeXus attributes: default on the file and on the entry, axes and
\* signal on the data group /entry1/measurement, which holds the group
\* sub and the datasets x and y
AxesAttrs ==
    { AxesStr("x"), AxesStr("nope"), AxesStr("sub"),
      AxesList(<<"x">>), AxesList(<< >>), AxesList(<<".", "x">>),
      AxesList(<<"x", ".">>) }

DataAttrs(signal, axes) ==
    [a \in {"NX_class"} \cup (IF signal = "" THEN {} ELSE {NX_SIGNAL})
                        \cup (IF axes = << >> THEN {} ELSE {NX_AXES})
       |-> IF a = "NX_class" THEN "NXdata"
           ELSE IF a = NX_SIGNAL THEN signal ELSE axes[1]]

NexusFiles ==
    { << Group(<<Hard("entry1", 2)>>, Attr("default", rd)),
         Group(<<Hard("measurement", 3)>>, Attr("default", ed)),
         Group(<<Hard("sub", 4), Hard("x", 5), Hard("y", 6)>>,
               DataAttrs(sg, ax)),
         Group(<< >>, NoAttrs),
         Dataset(<<3>>, NoAttrs, "v5"),
         Dataset(<<3>>, NoAttrs, "v6") >> :
      rd \in {"", "entry1", "nope"},
      ed \in {"", "measurement", "nope"},
      sg \in {"", "y", "nope", "sub"},
      ax \in {<< >>} \cup {<<v>> : v \in AxesAttrs} }

\* a NeXus file with default axes x and signal y, and a further dataset
\* /entry1/measurement/<k> of 0, 1 or 2 dimensions
SeedFiles ==
    { << Group(<<Hard("entry1", 2)>>, NoAttrs),
         Group(<<Hard("measurement", 3)>>, [NX_class |-> "NXentry"]),
         Group(<<Hard(k, 4), Hard("x", 5), Hard("y", 6)>>,
               [NX_class |-> "NXdata", signal |-> "y", axes |-> AxesStr("x")]),
         Dataset(sk, Attr(NX_LOCALNAME, lk), "v4"),
         Dataset(<<3>>, NoAttrs, "v5"),
         Dataset(<<3>>, NoAttrs, "v6") >> :
      k \in {"axes", "signal", "w"}, sk \in {<< >>, <<3>>, <<3, 2>>},
      lk \in {"", "axes"} }

\* a group /entry1/<k> whose attributes cannot be read, between readable
\* siblings
FaultFiles ==
    { << Group(<<Hard("entry1", 2)>>, NoAttrs),
         Group(<<Hard(k, 3), Hard("z", 5)>>, [NX_class |-> "NXentry"]),
         FaultyGroup(<<Hard("d", 4)>>, attrs, fault),
         Dataset(<<3>>, NoAttrs, "v4"),
         Dataset(<<3>>, NoAttrs, "v5") >> :
      k \in {"bad", "measurement"}, fault \in {"all", "read"},
      attrs \in {NoAttrs, [NX_class |-> "NXdata"],
                 [NX_class |-> "NXdata", local_name |-> "b"]} }

\* datasets /entry1/<k1> and /entry1/<k2> named like a builtin, like a
\* name the namespace adds, or like neither
EvalFiles ==
    { << Group(<<Hard("entry1", 2)>>, NoAttrs),
         Group(<<Hard(k[1], 3), Hard(k[2], 4)>>, NoAttrs),
         Dataset(s3, NoAttrs, "v3"),
         Dataset(<<3>>, NoAttrs, "v4") >> :
      k \in {<<"_x", "x">>, <<"filename", "x">>, <<"sum", "total">>,
             <<"total", "x">>},
      s3 \in {<< >>, <<3>>} }

\* files whose root has no children, or a dataset as first child
RootFiles ==
    { << Group(<< >>, Attr("default", rd)) >> : rd \in {"", "entry1"} }
    \cup
    { << Group(<<Hard("a", 2), Hard("entry1", 3)>>, Attr("default", rd)),
         Dataset(sa, NoAttrs, "v2"),
         Group(<<Hard("measurement", 4)>>, NoAttrs),
         Group(<<Hard("x", 5)>>,
               [signal |-> "x", axes |-> AxesStr("x")]),
         Dataset(<<3>>, NoAttrs, "v5") >> :
      rd \in {"", "entry1"}, sa \in {<< >>, <<3>>} }

\* a root dataset whose key reads like a statement
OddFiles ==
    { << Group(<<Hard("entry1", 2), Hard(k, 3)>>, NoAttrs),
         Group(<<Hard("a", 4)>>, NoAttrs),
         Dataset(s3, NoAttrs, "v3"),
         Dataset(<<3>>, NoAttrs, "v4") >> :
      k \in {"import a", "pos.a"}, s3 \in {<< >>, <<3>>} }

Files ==
    ShapeFiles \cup NameFiles \cup LinkFiles \cup NexusFiles \cup RootFiles
        \cup OddFiles \cup FaultFiles \cup SeedFiles \cup EvalFiles

(***************************************************************************)
(* The map and the walk                                                    *)
(***************************************************************************)

VARIABLES
    file,    \* the open file the map is built on
    mapper,  \* "map_hdf" or "HdfMap2"
    pc,      \* where the build stands
    stack,   \* the active calls of recur_func / _populate
    hmap,    \* the HdfMap under construction
    err,     \* the exception that left the build and the step it left
    ev,      \* the eval_hdf call on the built map
    built,   \* the calls of the mapper on this file so far
    op,      \* the last method called on the built map and its result
    gui,     \* the file handles and maps of the application's threads
    viewer   \* the folder plot viewer: the watched folder and the file list

vars == <<file, mapper, pc, stack, hmap, err, ev, built, op, gui, viewer>>

\* how many times the mapper is called on the open file
MaxBuilds == 2

\* depth of recursion at which the interpreter raises RecursionError
RecursionLimit == 5

\* HdfMap.__init__ / HdfMap2.__init__: every field an empty dict
HdfMap ==
    [groups |-> EmptyDict, classes |-> EmptyDict, datasets |-> EmptyDict,
     arrays |-> EmptyDict, values |-> EmptyDict, scannables |-> EmptyDict,
     combined |-> EmptyDict, image_data |-> EmptyDict]

\* a call of recur_func on group obj at top_address, about to look at its
\* idx-th key
Frame(obj, top_address, idx) ==
    [obj |-> obj, top_address |-> top_address, idx |-> idx]

\* a value eval_hdf returns: the value of a dataset, or the expression
\* evaluated in its namespace
DataValue(v) == [kind |-> "value", text |-> v, ns |-> EmptyDict]
Evaluated(expression, ns) == [kind |-> "term", text |-> expression, ns |-> ns]

\* no eval_hdf call under way.  wrapped tells a call made by format_hdf;
\* exc_text and exc_ns are the source text and the namespace the raised
\* exception object carries, if any
Idle ==
    [pc |-> "idle", expression |-> "", reads |-> {}, namespace |-> EmptyDict,
     out |-> DataValue(""), exc |-> "", wrapped |-> FALSE,
     exc_text |-> "", exc_ns |-> EmptyDict]

NoErr == [exc |-> "", at |-> ""]

\* Python's None
None == [none |-> TRUE]

\* no method of the map called: a call leaves its name, its arguments, the
\* exception it raised and the value it returned
NoOp == [name |-> "", args |-> << >>, exc |-> "", val |-> None]

\* the first call of the mapper: n counts the calls, first is the map the
\* call before this one returned and by the mapper that built it, picks
\* records what max(set(array_sizes), ...) returned for each list of sizes
FirstBuild == [n |-> 1, first |-> HdfMap, by |-> "", picks |-> {}]

\* the files of the folder the viewers look at
Paths == {"a.nxs", "b.nxs"}

\* the threads of the application: the UI thread, two dataset-update
\* threads of a folder viewer, the polling thread of the plot viewer
Threads == {"ui", "updater1", "updater2", "poller"}

\* how many times a file is opened
MaxHandles == 4

\* the last tick of the clock of the watched folder
MaxTime == 4

\* a thread between two invocations: no handle and no map in its locals
Resting == [pc |-> "idle", hdf |-> 0, m |-> 0]

\* no file opened yet.  handles lists the h5py.File objects made so far,
\* maps the HdfMap objects, each with the thread that made it and the
\* threads that used it; th holds the local variables hdf and m of each
\* thread
NoHandles ==
    [handles |-> << >>, maps |-> << >>, th |-> [t \in Threads |-> Resting]]

\* _folder_modified is None
Unset == 0

\* a thread of the plot viewer outside get_recent_files and _add_files
Waiting == [pc |-> "idle", mod_time |-> 0, files |-> << >>]

\* the plot viewer after __init__ on a folder that holds a.nxs: mtime is
\* the modification time of each file (0: no such file), folder_mtime the
\* one of the folder, now the clock; the file list was filled from
\* get_recent_files, which set _folder_modified
Constructed ==
    [mtime |-> [p \in Paths |-> IF p = "a.nxs" THEN 1 ELSE 0],
     folder_mtime |-> 1, now |-> 2, folder_modified |-> 1,
     file_list |-> <<"a.nxs">>,
     call |-> [t \in {"ui", "poller"} |-> Waiting]]

Init ==
    /\ file \in Files
    /\ mapper \in {"map_hdf", "HdfMap2"}
    /\ pc = IF mapper = "map_hdf" THEN "defaults" ELSE "walk"
    /\ stack = <<Frame(Root, "", 1)>>
    /\ hmap = HdfMap
    /\ err = NoErr
    /\ ev = Idle
    /\ built = FirstBuild
    /\ op = NoOp
    /\ gui = NoHandles
    /\ viewer = Constructed

\* the exception exc leaves map_hdf from the step named at
Raise(exc, at) ==
    /\ pc' = "raised"
    /\ err' = [exc |-> exc, at |-> at]

\* map_hdf lines 671-681: pre-seed arrays['axes'] and arrays['signal'];
\* only KeyError is caught
LoadDefaults ==
    /\ pc = "defaults"
    /\ LET r == get_nexus_axes_datasets(file)
       IN  IF r.exc = "KeyError"
           THEN /\ pc' = "walk"
                /\ UNCHANGED <<hmap, err>>
           ELSE IF r.exc # ""
           THEN /\ Raise(r.exc, "defaults")
                /\ UNCHANGED hmap
           ELSE IF Len(r.axes) = 0
           THEN /\ Raise("IndexError", "defaults")
                /\ UNCHANGED hmap
           ELSE LET a1 == IF InFile(file, r.axes[1].name)
                          THEN Put(hmap.arrays, NX_AXES, r.axes[1].name)
                          ELSE hmap.arrays
                    a2 == IF InFile(file, r.signal.name)
                          THEN Put(a1, NX_SIGNAL, r.signal.name)
                          ELSE a1
                IN  /\ hmap' = [hmap EXCEPT !.arrays = a2]
                    /\ pc' = "walk"
                    /\ UNCHANGED err
    /\ UNCHANGED <<gui, viewer, file, mapper, built, op, stack, ev>>

\* lines 694-699: the class tag of a group: attrs['NX_class'], decoded,
\* else 'Group'; an OSError raised inside the try gives 'Group'
NxClass(obj) ==
    IF InAttrsFails(obj) \/ ReadAttrFails(obj, "NX_class") THEN "Group"
    ELSE IF "NX_class" \in DOMAIN obj.attrs THEN obj.attrs["NX_class"]
    ELSE "Group"

\* line 689 raises OSError: `'local_name' in obj.attrs` and
\* obj.attrs['local_name'] are evaluated outside any try
AltnameFails(obj) ==
    InAttrsFails(obj) \/ ReadAttrFails(obj, NX_LOCALNAME)

\* line 710 raises OSError: dict(obj.attrs) reads every attribute
DictAttrsFails(obj) ==
    obj.fault = "all" \/ (obj.fault = "read" /\ DOMAIN obj.attrs # {})

\* RegisterGroup with classes[nx_class] holding one address, the last
RegisterGroupOverwrite(hm, address, nx_class, name) ==
    [hm EXCEPT
       !.groups = Put(@, address, [nx_class |-> nx_class, name |-> name]),
       !.classes = Put(@, nx_class, <<address>>)]

\* lines 700-704: groups[address] = (nx_class, name); classes[nx_class]
\* created with [address] or appended to
RegisterGroup(hm, address, nx_class, name) ==
    [hm EXCEPT
       !.groups = Put(@, address, [nx_class |-> nx_class, name |-> name]),
       !.classes = IF nx_class \notin DOMAIN @
                   THEN Put(@, nx_class, <<address>>)
                   ELSE Put(@, nx_class, Append(@[nx_class], address))]

\* the tuple (name, obj.size, obj.shape, dict(obj.attrs))
Summary(name, obj) ==
    [name |-> name, size |-> Size(obj), shape |-> obj.shape,
     attrs |-> obj.attrs]

\* RegisterDataset with image stacks kept out of arrays
RegisterDatasetImageOnly(hm, address, name, altname, obj) ==
    LET withData == [hm EXCEPT !.datasets = Put(@, address, Summary(name, obj))]
    IN  IF Ndim(obj) >= 3
        THEN [withData EXCEPT
                !.image_data = Put(@, address, Summary(name, obj))]
        ELSE IF Ndim(obj) > 0
        THEN [withData EXCEPT
                !.arrays = Put(Put(@, name, address), altname, address)]
        ELSE [withData EXCEPT
                !.values = Put(Put(@, name, address), altname, address)]

\* RegisterDataset with the scalar branch leaving values alone
RegisterDatasetNoValues(hm, address, name, altname, obj) ==
    LET withData == [hm EXCEPT !.datasets = Put(@, address, Summary(name, obj))]
    IN  IF Ndim(obj) >= 3
        THEN [withData EXCEPT
                !.image_data = Put(@, address, Summary(name, obj)),
                !.arrays = Put(Put(@, name, address), altname, address)]
        ELSE IF Ndim(obj) > 0
        THEN [withData EXCEPT
                !.arrays = Put(Put(@, name, address), altname, address)]
        ELSE withData

\* lines 710-723: datasets[address], then image_data and arrays (ndim >= 3),
\* arrays (ndim > 0) or values, under name and altname
RegisterDataset(hm, address, name, altname, obj) ==
    LET withData == [hm EXCEPT !.datasets = Put(@, address, Summary(name, obj))]
    IN  IF Ndim(obj) >= 3
        THEN [withData EXCEPT
                !.image_data = Put(@, address, Summary(name, obj)),
                !.arrays = Put(Put(@, name, address), altname, address)]
        ELSE IF Ndim(obj) > 0
        THEN [withData EXCEPT
                !.arrays = Put(Put(@, name, address), altname, address)]
        ELSE [withData EXCEPT
                !.values = Put(Put(@, name, address), altname, address)]

\* the call on top of the stack
Top == stack[Len(stack)]

\* the stack with the top call moved on to its next key
Advanced == [stack EXCEPT ![Len(stack)].idx = @ + 1]

\* line 709: isinstance(obj, Dataset) and not isinstance(link, SoftLink)
IsRegistered(obj, link) ==
    obj.kind = "dataset" /\ link # "soft"

\* one iteration of `for key in hdf_group` (lines 684-723), the recursive
\* call of line 706 included: obj is None for a dangling link, and
\* obj.attrs then raises AttributeError; an OSError of line 689 or 710
\* leaves the walk
Visit ==
    /\ pc = "walk"
    /\ Top.idx <= Len(file[Top.obj].entries)
    /\ LET e == file[Top.obj].entries[Top.idx]
           address == Top.top_address \o SEP \o e.key
           name == address_name(address)
       IN  IF e.target = Null
           THEN /\ Raise("AttributeError", "walk")
                /\ UNCHANGED <<hmap, stack>>
           ELSE LET obj == file[e.target]
                    altname == IF NX_LOCALNAME \in DOMAIN obj.attrs
                               THEN address_name(obj.attrs[NX_LOCALNAME])
                               ELSE name
                IN  IF AltnameFails(obj)
                       \/ (IsRegistered(obj, e.link) /\ DictAttrsFails(obj))
                    THEN /\ Raise("OSError", "walk")
                         /\ UNCHANGED <<hmap, stack>>
                    ELSE IF obj.kind = "group"
                    THEN /\ hmap' = RegisterGroup(hmap, address, NxClass(obj),
                                                  name)
                         /\ IF Len(stack) >= RecursionLimit
                            THEN /\ Raise("RecursionError", "walk")
                                 /\ UNCHANGED stack
                            ELSE /\ stack' = Append(Advanced,
                                                    Frame(e.target, address, 1))
                                 /\ UNCHANGED <<pc, err>>
                    ELSE IF IsRegistered(obj, e.link)
                    THEN /\ hmap' = RegisterDataset(hmap, address, name,
                                                    altname, obj)
                         /\ stack' = Advanced
                         /\ UNCHANGED <<pc, err>>
                    ELSE /\ stack' = Advanced
                         /\ UNCHANGED <<hmap, pc, err>>
    /\ UNCHANGED <<gui, viewer, file, mapper, built, op, ev>>

\* the end of `for key in hdf_group`: the call returns; when the call on
\* the root returns the walk is over
Return ==
    /\ pc = "walk"
    /\ Top.idx > Len(file[Top.obj].entries)
    /\ stack' = SubSeq(stack, 1, Len(stack) - 1)
    /\ pc' = IF Len(stack) = 1 THEN "postpass" ELSE "walk"
    /\ UNCHANGED <<gui, viewer, file, mapper, built, op, hmap, err, ev>>

(***************************************************************************)
(* The post-pass: scannables and combined                                  *)
(***************************************************************************)

\* the list of element-counts of the arrays entries, as name -> count
SizesOf(hm, names) ==
    [k \in names |-> hm.datasets[hm.arrays[k]].size]

\* map_hdf line 728: one element-count per arrays entry
array_sizes(hm) ==
    SizesOf(hm, DOMAIN hm.arrays)

\* HdfMap2.most_common_size lines 480-484: only the counts > 1
array_sizes_gt1(hm) ==
    SizesOf(hm, {k \in DOMAIN hm.arrays : hm.datasets[hm.arrays[k]].size > 1})

\* list.count
Count(sizes, s) == Cardinality({k \in DOMAIN sizes : sizes[k] = s})

\* max(set(sizes), key=sizes.count): the counts that occur most often; max
\* returns the first of them in the set's iteration order
MostCommon(sizes) ==
    {s \in Range(sizes) : \A t \in Range(sizes) : Count(sizes, s) >= Count(sizes, t)}

\* generate_scannables with values laid over arrays in combined
generate_scannables_values_win(hm, array_size) ==
    LET scannables == [k \in {n \in DOMAIN hm.arrays :
                                 hm.datasets[hm.arrays[n]].size = array_size}
                          |-> hm.arrays[k]]
    IN  [hm EXCEPT !.scannables = scannables,
                   !.combined = Overlay(Overlay(hm.arrays, hm.values),
                                        scannables)]

\* generate_scannables taking the arrays of at least array_size elements
generate_scannables_at_least(hm, array_size) ==
    LET scannables == [k \in {n \in DOMAIN hm.arrays :
                                 hm.datasets[hm.arrays[n]].size >= array_size}
                          |-> hm.arrays[k]]
    IN  [hm EXCEPT !.scannables = scannables,
                   !.combined = Overlay(Overlay(hm.values, hm.arrays),
                                        scannables)]

\* HdfMap2.generate_scannables and map_hdf lines 731-733: scannables are
\* the arrays entries of array_size elements; combined lays arrays over
\* values and scannables over both
generate_scannables(hm, array_size) ==
    LET scannables == [k \in {n \in DOMAIN hm.arrays :
                                 hm.datasets[hm.arrays[n]].size = array_size}
                          |-> hm.arrays[k]]
    IN  [hm EXCEPT !.scannables = scannables,
                   !.combined = Overlay(Overlay(hm.values, hm.arrays),
                                        scannables)]

\* map_hdf lines 727-734 and HdfMap2.__init__ line 410.  datasets[v]
\* raises KeyError for an address that is no key of datasets, max() raises
\* ValueError on an empty list.  Among equally common sizes max() returns
\* the first in the iteration order of set(array_sizes), which the list
\* fixes: the same list gives the same size again.
PostPass ==
    /\ pc = "postpass"
    /\ LET sizes == IF mapper = "map_hdf" THEN array_sizes(hmap)
                    ELSE array_sizes_gt1(hmap)
       IN  IF \E v \in Range(hmap.arrays) : v \notin DOMAIN hmap.datasets
           THEN /\ Raise("KeyError", "postpass")
                /\ UNCHANGED <<hmap, built>>
           ELSE IF DOMAIN sizes = {}
           THEN /\ Raise("ValueError", "postpass")
                /\ UNCHANGED <<hmap, built>>
           ELSE /\ \E max_array \in MostCommon(sizes) :
                       /\ \A p \in built.picks :
                              p.sizes = sizes => p.max_array = max_array
                       /\ hmap' = generate_scannables(hmap, max_array)
                       /\ built' = [built EXCEPT !.picks = @ \cup
                              {[sizes |-> sizes, max_array |-> max_array]}]
                /\ pc' = "done"
                /\ UNCHANGED err
    /\ UNCHANGED <<gui, viewer, file, mapper, stack, ev, op>>

\* Rebuild with the dicts of the map shared between the calls
RebuildShared ==
    /\ pc = "done"
    /\ built.n < MaxBuilds
    /\ ev.pc \in {"idle", "returned", "raised"}
    /\ built' = [built EXCEPT !.n = @ + 1, !.first = hmap, !.by = mapper]
    /\ hmap' = [hmap EXCEPT !.scannables = EmptyDict, !.combined = EmptyDict]
    /\ stack' = <<Frame(Root, "", 1)>>
    /\ pc' = IF mapper = "map_hdf" THEN "defaults" ELSE "walk"
    /\ ev' = Idle
    /\ UNCHANGED <<gui, viewer, file, mapper, err, op>>

\* the mapper is called again on the same open file (eval_hdf line 785
\* does so for every call without a map): line 661 makes a new HdfMap,
\* whose dicts __init__ creates afresh
Rebuild ==
    /\ pc = "done"
    /\ built.n < MaxBuilds
    /\ ev.pc \in {"idle", "returned", "raised"}
    /\ built' = [built EXCEPT !.n = @ + 1, !.first = hmap, !.by = mapper]
    /\ hmap' = HdfMap
    /\ stack' = <<Frame(Root, "", 1)>>
    /\ pc' = IF mapper = "map_hdf" THEN "defaults" ELSE "walk"
    /\ ev' = Idle
    /\ UNCHANGED <<gui, viewer, file, mapper, err, op>>

\* the other mapper is called on the same open file: HdfMap2(hdf_file)
\* after map_hdf(hdf_file), or map_hdf after HdfMap2
RebuildOther ==
    /\ pc = "done"
    /\ built.n < MaxBuilds
    /\ ev.pc \in {"idle", "returned", "raised"}
    /\ built' = [built EXCEPT !.n = @ + 1, !.first = hmap, !.by = mapper]
    /\ mapper' = IF mapper = "map_hdf" THEN "HdfMap2" ELSE "map_hdf"
    /\ hmap' = HdfMap
    /\ stack' = <<Frame(Root, "", 1)>>
    /\ pc' = IF mapper' = "map_hdf" THEN "defaults" ELSE "walk"
    /\ ev' = Idle
    /\ UNCHANGED <<gui, viewer, file, err, op>>

(***************************************************************************)
(* eval_hdf                                                                *)
(***************************************************************************)

\* hdf_file.filename of the open file
FilePath == "/data/scan.nxs"

Lower == {"a", "b", "c", "d", "e", "f", "g", "h", "i", "j", "k", "l", "m",
          "n", "o", "p", "q", "r", "s", "t", "u", "v", "w", "x", "y", "z"}
Digits == {"0", "1", "2", "3", "4", "5", "6", "7", "8", "9"}
IdentStart == Lower \cup {"_"}
IdentChar == IdentStart \cup Digits

\* hdf_functions.py:35: dir(builtins) + ['np'], the names used here
GLOBALS_NAMELIST == {"sum", "max", "min", "len", "abs", "np"}

\* words of the grammar that are not names
Keywords == {"import", "in", "not", "and", "or", "if", "else", "for"}

\* end of the run of identifier characters that starts at i
RECURSIVE RunEnd(_, _)
RunEnd(s, i) ==
    IF i < Len(s) /\ CharAt(s, i + 1) \in IdentChar THEN RunEnd(s, i + 1)
    ELSE i

\* the positions of code s where a name starts: the maximal identifier
\* runs that are not attributes (after a '.') or numbers
NameStarts(s) ==
    { j \in 1..Len(s) :
        /\ CharAt(s, j) \in IdentStart
        /\ (j = 1 \/ CharAt(s, j - 1) \notin IdentChar \cup {"."}) }

\* the ast.Name nodes of code s
Identifiers(s) ==
    { SubSeq(s, i, RunEnd(s, i)) : i \in NameStarts(s) } \ Keywords

\* the names that code s calls: name(...)
CalledNames(s) ==
    { SubSeq(s, i, RunEnd(s, i)) :
        i \in { j \in NameStarts(s) :
                  /\ RunEnd(s, j) < Len(s)
                  /\ CharAt(s, RunEnd(s, j) + 1) = "(" } } \ Keywords

\* format_hdf line 804: the template as the text of an f-string
FStr(template) == "f\"\"\"" \o template \o "\"\"\""

IsFStr(s) ==
    /\ Len(s) >= 7
    /\ SubSeq(s, 1, 4) = "f\"\"\""
    /\ SubSeq(s, Len(s) - 2, Len(s)) = "\"\"\""

\* the text between the quotes of an f-string
Body(s) == SubSeq(s, 5, Len(s) - 3)

\* the closing brace of the replacement field that opens at i (0: none)
FieldEnd(b, i) ==
    LET closes == {j \in (i + 1)..Len(b) : CharAt(b, j) = "}"}
    IN  IF closes = {} THEN 0
        ELSE CHOOSE j \in closes : \A k \in closes : j <= k

\* the replacement fields {...} of an f-string: the code it evaluates
Fields(s) ==
    LET b == Body(s)
    IN  { SubSeq(b, i + 1, FieldEnd(b, i) - 1) :
            i \in { k \in 1..Len(b) :
                      CharAt(b, k) = "{" /\ FieldEnd(b, k) # 0 } }

\* the pieces of code in the text: the text itself, or the replacement
\* fields of an f-string
CodeOf(s) == IF IsFStr(s) THEN Fields(s) ELSE {s}

\* the ast.Name nodes of the expression
Names(s) == UNION { Identifiers(c) : c \in CodeOf(s) }

\* the names the expression calls
Calls(s) == UNION { CalledNames(c) : c \in CodeOf(s) }

\* whether the braces of an f-string pair up: every '{' is closed before
\* the next '{', and every '}' closes a '{'
BracesPair(b) ==
    /\ \A i \in 1..Len(b) :
          CharAt(b, i) = "{" =>
              /\ FieldEnd(b, i) # 0
              /\ \A k \in (i + 1)..FieldEnd(b, i) : CharAt(b, k) # "{"
    /\ \A j \in 1..Len(b) :
          CharAt(b, j) = "}" =>
              \E i \in 1..(j - 1) :
                  CharAt(b, i) = "{" /\ FieldEnd(b, i) = j

\* whether ast.parse accepts code s as an expression: no statement
\* keyword, and no operator at either end
ExprParses(s) ==
    /\ Len(s) > 0
    /\ CharAt(s, 1) \notin {"/", "*", ")", "."}
    /\ CharAt(s, Len(s)) \notin {"/", "*", "(", ".", "+", "-"}
    /\ \A i \in 1..Len(s) :
          CharAt(s, i) = " " =>
              /\ i > 1 /\ i < Len(s)
              /\ ~(CharAt(s, i - 1) \in IdentChar /\ CharAt(s, i + 1) \in IdentChar)
                 \/ \E kw \in Keywords \ {"import"} :
                       \/ (i > Len(kw) /\ SubSeq(s, i - Len(kw), i - 1) = kw)
                       \/ (i + Len(kw) <= Len(s)
                             /\ SubSeq(s, i + 1, i + Len(kw)) = kw)

\* whether ast.parse(expression, mode='eval') accepts the text
Parses(s) ==
    IF IsFStr(s)
    THEN BracesPair(Body(s)) /\ \A c \in Fields(s) : ExprParses(c)
    ELSE ExprParses(s)

\* find_varnames: the names of the expression that are not builtins
find_varnames(expression) ==
    Names(expression) \ GLOBALS_NAMELIST

\* hdf_functions.py:815
bad_names == {"import", "os.", "sys."}

\* check_naughty_eval that never raises
check_naughty_eval_off(eval_str) ==
    FALSE

\* check_naughty_eval: TRUE when it raises
check_naughty_eval(eval_str) ==
    \E bad \in bad_names : Contains(eval_str, bad)

\* generate_namespace with the extras and the addresses laid over the
\* dataset values
generate_namespace_extras_last(f, name_address, varnames) ==
    LET found == {n \in varnames : n \in DOMAIN name_address}
        namespace == [n \in found |-> ReadValue(f, name_address[n])]
        defaults == [n \in varnames \ found |-> "--"]
        addresses == [a \in {"_" \o n : n \in found} |->
                         name_address[SubSeq(a, 2, Len(a))]]
        extras == [filepath |-> FilePath,
                   filename |-> Last(Split(FilePath, SEP))]
    IN  Overlay(Overlay(Overlay(defaults, namespace), extras), addresses)

\* generate_namespace without the defaults
generate_namespace_no_defaults(f, name_address, varnames) ==
    LET found == {n \in varnames : n \in DOMAIN name_address}
        namespace == [n \in found |-> ReadValue(f, name_address[n])]
        addresses == [a \in {"_" \o n : n \in found} |->
                         name_address[SubSeq(a, 2, Len(a))]]
        extras == [filepath |-> FilePath,
                   filename |-> Last(Split(FilePath, SEP))]
    IN  Overlay(Overlay(extras, addresses), namespace)

\* generate_namespace: {**defaults, **extras, **addresses, **namespace}
generate_namespace(f, name_address, varnames) ==
    LET found == {n \in varnames : n \in DOMAIN name_address}
        namespace == [n \in found |-> ReadValue(f, name_address[n])]
        defaults == [n \in varnames \ found |-> "--"]
        addresses == [a \in {"_" \o n : n \in found} |->
                         name_address[SubSeq(a, 2, Len(a))]]
        extras == [filepath |-> FilePath,
                   filename |-> Last(Split(FilePath, SEP))]
    IN  Overlay(Overlay(Overlay(defaults, extras), addresses), namespace)

\* the expressions handed to eval_hdf
Expressions ==
    {"x", "eta", "d+e", "entry1/d", "/entry1/measurement/x",
     "import a", "np.sum(x)", "pos.a",
     "np.sum(sum)", "sum(total)", "filename", "_x", "entry1"}

\* the templates handed to format_hdf
Templates ==
    {"{x}", "x={x"}

\* EvalStart without the direct-address shortcut
EvalStartNoShortcut(expression) ==
    /\ pc = "done"
    /\ ev.pc \in {"idle", "returned", "raised"}
    /\ ev' = [Idle EXCEPT !.pc = "check", !.expression = expression]
    /\ op' = NoOp
    /\ UNCHANGED <<gui, viewer, file, mapper, built, pc, stack, hmap, err>>

\* eval_hdf lines 782-783: an expression that is an address of the file
\* is read and returned at once; [()] on a group raises TypeError
EvalStart(expression) ==
    /\ pc = "done"
    /\ ev.pc \in {"idle", "returned", "raised"}
    /\ IF InFile(file, expression)
       THEN LET obj == Resolve(file, Ref(Root, SEP), expression).obj
            IN  IF file[obj].kind = "dataset"
                THEN ev' = [Idle EXCEPT !.pc = "returned",
                                        !.expression = expression,
                                        !.reads = {expression},
                                        !.out = DataValue(file[obj].value)]
                ELSE ev' = [Idle EXCEPT !.pc = "raised",
                                        !.expression = expression,
                                        !.exc = "TypeError"]
       ELSE ev' = [Idle EXCEPT !.pc = "check", !.expression = expression]
    /\ op' = NoOp
    /\ UNCHANGED <<gui, viewer, file, mapper, built, pc, stack, hmap, err>>

\* format_hdf lines 804-805: eval_hdf on the template wrapped as an
\* f-string
FormatStart(template) ==
    /\ pc = "done"
    /\ ev.pc \in {"idle", "returned", "raised"}
    /\ LET expression == FStr(template)
       IN  IF InFile(file, expression)
           THEN LET obj == Resolve(file, Ref(Root, SEP), expression).obj
                IN  IF file[obj].kind = "dataset"
                    THEN ev' = [Idle EXCEPT !.pc = "returned",
                                            !.expression = expression,
                                            !.wrapped = TRUE,
                                            !.reads = {expression},
                                            !.out = DataValue(file[obj].value)]
                    ELSE ev' = [Idle EXCEPT !.pc = "raised",
                                            !.expression = expression,
                                            !.wrapped = TRUE,
                                            !.exc = "TypeError"]
           ELSE ev' = [Idle EXCEPT !.pc = "check", !.expression = expression,
                                   !.wrapped = TRUE]
    /\ op' = NoOp
    /\ UNCHANGED <<gui, viewer, file, mapper, built, pc, stack, hmap, err>>

\* eval_hdf line 786: the safety filter
EvalCheck ==
    /\ ev.pc = "check"
    /\ IF check_naughty_eval(ev.expression)
       THEN ev' = [ev EXCEPT !.pc = "raised", !.exc = "Exception"]
       ELSE ev' = [ev EXCEPT !.pc = "namespace"]
    /\ UNCHANGED <<gui, viewer, file, mapper, built, op, pc, stack, hmap, err>>

\* EvalNamespace with the names find_varnames finds only
EvalNamespaceNamesOnly ==
    /\ ev.pc = "namespace"
    /\ IF ~Parses(ev.expression)
       THEN ev' = [ev EXCEPT !.pc = "raised", !.exc = "SyntaxError",
                             !.exc_text = ev.expression]
       ELSE LET varnames == find_varnames(ev.expression)
            IN  ev' = [ev EXCEPT
                         !.pc = "eval",
                         !.reads = {hmap.combined[n] :
                                      n \in varnames \cap DOMAIN hmap.combined},
                         !.namespace = generate_namespace(file, hmap.combined,
                                                          varnames)]
    /\ UNCHANGED <<gui, viewer, file, mapper, built, op, pc, stack, hmap, err>>

\* eval_hdf lines 787-789: the names of combined found in the text, the
\* names find_varnames finds (ast.parse raises SyntaxError), and the
\* namespace, for which the dataset of each name of combined is read
EvalNamespace ==
    /\ ev.pc = "namespace"
    /\ IF ~Parses(ev.expression)
       THEN ev' = [ev EXCEPT !.pc = "raised", !.exc = "SyntaxError",
                             !.exc_text = ev.expression]
       ELSE LET varnames ==
                    {n \in DOMAIN hmap.combined : Contains(ev.expression, n)}
                        \cup find_varnames(ev.expression)
            IN  ev' = [ev EXCEPT
                         !.pc = "eval",
                         !.reads = {hmap.combined[n] :
                                      n \in varnames \cap DOMAIN hmap.combined},
                         !.namespace = generate_namespace(file, hmap.combined,
                                                          varnames)]
    /\ UNCHANGED <<gui, viewer, file, mapper, built, op, pc, stack, hmap, err>>

\* EvalRun returning the default value where the evaluation fails
EvalRunDefault ==
    /\ ev.pc = "eval"
    /\ ev' = [ev EXCEPT
                 !.pc = "returned",
                 !.out = IF Calls(ev.expression) \cap DOMAIN ev.namespace # {}
                         THEN DataValue("--")
                         ELSE IF ev.expression \in DOMAIN ev.namespace
                         THEN DataValue(ev.namespace[ev.expression])
                         ELSE Evaluated(ev.expression, ev.namespace)]
    /\ UNCHANGED <<gui, viewer, file, mapper, built, op, pc, stack, hmap, err>>

\* eval_hdf line 792: eval(expression, GLOBALS, namespace).  The names of
\* the namespace hide the builtins; calling a name that the namespace
\* binds (to a dataset value, the default or an address) raises TypeError;
\* a bare name evaluates to what the namespace binds it to.
EvalRun ==
    /\ ev.pc = "eval"
    /\ IF Calls(ev.expression) \cap DOMAIN ev.namespace # {}
       THEN ev' = [ev EXCEPT !.pc = "raised", !.exc = "TypeError"]
       ELSE ev' = [ev EXCEPT
                     !.pc = "returned",
                     !.out = IF ev.expression \in DOMAIN ev.namespace
                             THEN DataValue(ev.namespace[ev.expression])
                             ELSE Evaluated(ev.expression, ev.namespace)]
    /\ UNCHANGED <<gui, viewer, file, mapper, built, op, pc, stack, hmap, err>>

(***************************************************************************)
(* The methods of a built map                                              *)
(***************************************************************************)

\* the names, addresses, class tags and sizes the methods are called with
OpNames == {"x", "eta", "/entry1/d", "nope"}
OpClasses == {"NXentry", "NXdata", "nope"}
OpSizes == {1, 3, 100}

\* the call returned val / raised exc
Returns(name, args, val) == [name |-> name, args |-> args, exc |-> "", val |-> val]
Raises(name, args, exc) == [name |-> name, args |-> args, exc |-> exc, val |-> None]

\* HdfMap2._get_dataset: entry idx of the tuple of the dataset at the
\* address, or at the address combined gives the name; else None
get_dataset(hm, name_or_address, idx) ==
    LET entry(t) == IF idx = 1 THEN [v |-> t.size]
                    ELSE IF idx = 2 THEN [v |-> t.shape] ELSE [v |-> t.attrs]
    IN  IF name_or_address \in DOMAIN hm.datasets
        THEN entry(hm.datasets[name_or_address])
        ELSE IF name_or_address \in DOMAIN hm.combined
        THEN entry(hm.datasets[hm.combined[name_or_address]])
        ELSE None

\* HdfMap2.get_class: the first address of the class, else None
get_class(hm, nx_class) ==
    IF nx_class \in DOMAIN hm.classes THEN [v |-> hm.classes[nx_class][1]]
    ELSE None

\* str.startswith
StartsWith(s, prefix) ==
    Len(prefix) <= Len(s) /\ SubSeq(s, 1, Len(prefix)) = prefix

\* HdfMap2.get_class_datasets: the dataset addresses under the first group
\* of the class
get_class_datasets(hm, nx_class) ==
    LET class_address == get_class(hm, nx_class)
    IN  IF class_address = None THEN None
        ELSE [v |-> {a \in DOMAIN hm.datasets : StartsWith(a, class_address.v)}]

\* HdfMap2.most_common_shape: the shapes of the arrays entries of at least
\* one dimension
array_shapes(hm) ==
    [k \in {n \in DOMAIN hm.arrays : Len(hm.datasets[hm.arrays[n]].shape) > 0}
       |-> hm.datasets[hm.arrays[k]].shape]

\* the map is built and no call on it is under way
AtRest ==
    /\ pc = "done"
    /\ ev.pc \in {"idle", "returned", "raised"}

\* HdfMap.get (lines 596-607) looks the name up in combined; HdfMap2.get
\* (lines 538-551) takes an address of datasets first
Get(name) ==
    /\ AtRest
    /\ op' = IF mapper = "HdfMap2" /\ name \in DOMAIN hmap.datasets
             THEN Returns("get", <<name>>, [v |-> ReadValue(file, name)])
             ELSE IF name \in DOMAIN hmap.combined
             THEN Returns("get", <<name>>,
                          [v |-> ReadValue(file, hmap.combined[name])])
             ELSE Returns("get", <<name>>, None)
    /\ ev' = Idle
    /\ UNCHANGED <<gui, viewer, file, mapper, built, pc, stack, hmap, err>>

\* HdfMap2.get_size, get_shape, get_attrs (idx 1, 2, 3)
GetDataset(name, idx) ==
    /\ AtRest
    /\ mapper = "HdfMap2"
    /\ op' = Returns(<<"get_size", "get_shape", "get_attrs">>[idx], <<name>>,
                     get_dataset(hmap, name, idx))
    /\ ev' = Idle
    /\ UNCHANGED <<gui, viewer, file, mapper, built, pc, stack, hmap, err>>

\* HdfMap2.get_attr: `attr_label in attrs` raises TypeError when get_attrs
\* returned None
GetAttr(name, attr_label) ==
    /\ AtRest
    /\ mapper = "HdfMap2"
    /\ LET attrs == get_dataset(hmap, name, 3)
       IN  op' = IF attrs = None
                 THEN Raises("get_attr", <<name, attr_label>>, "TypeError")
                 ELSE IF attr_label \in DOMAIN attrs.v
                 THEN Returns("get_attr", <<name, attr_label>>,
                              [v |-> attrs.v[attr_label]])
                 ELSE Returns("get_attr", <<name, attr_label>>, [v |-> ""])
    /\ ev' = Idle
    /\ UNCHANGED <<gui, viewer, file, mapper, built, pc, stack, hmap, err>>

\* HdfMap2.get_class and get_class_datasets
GetClass(nx_class) ==
    /\ AtRest
    /\ mapper = "HdfMap2"
    /\ \/ op' = Returns("get_class", <<nx_class>>, get_class(hmap, nx_class))
       \/ op' = Returns("get_class_datasets", <<nx_class>>,
                        get_class_datasets(hmap, nx_class))
    /\ ev' = Idle
    /\ UNCHANGED <<gui, viewer, file, mapper, built, pc, stack, hmap, err>>

\* HdfMap2.most_common_size and most_common_shape called on the built map:
\* max() of an empty list raises ValueError
MostCommonOf ==
    /\ AtRest
    /\ mapper = "HdfMap2"
    /\ \/ LET sizes == array_sizes_gt1(hmap)
          IN  IF DOMAIN sizes = {}
              THEN op' = Raises("most_common_size", << >>, "ValueError")
              ELSE \E s \in MostCommon(sizes) :
                       op' = Returns("most_common_size", << >>, [v |-> s])
       \/ LET shapes == array_shapes(hmap)
          IN  IF DOMAIN shapes = {}
              THEN op' = Raises("most_common_shape", << >>, "ValueError")
              ELSE \E s \in MostCommon(shapes) :
                       op' = Returns("most_common_shape", << >>, [v |-> s])
    /\ ev' = Idle
    /\ UNCHANGED <<gui, viewer, file, mapper, built, pc, stack, hmap, err>>

\* HdfMap2.generate_scannables called on the built map (lines 496-500):
\* scannables and combined are assigned anew
GenerateScannables(array_size) ==
    /\ AtRest
    /\ mapper = "HdfMap2"
    /\ hmap' = generate_scannables(hmap, array_size)
    /\ op' = Returns("generate_scannables", <<array_size>>, None)
    /\ ev' = Idle
    /\ UNCHANGED <<gui, viewer, file, mapper, built, pc, stack, err>>

(***************************************************************************)
(* The threads of the application and their file handles                   *)
(***************************************************************************)

\* the variables of the mapper and of eval_hdf
hdf_vars == <<file, mapper, pc, stack, hmap, err, ev, built, op>>

\* the handle / the map used by thread t
UsedBy(objs, id, t) == [objs EXCEPT ![id].users = @ \cup {t}]

\* LoadHdf handing out the handle another thread holds open on the path
LoadHdfCached(t, path) ==
    /\ gui.th[t].pc = "idle"
    /\ t # "poller"
    /\ Len(gui.handles) < MaxHandles
    /\ LET held == {h \in DOMAIN gui.handles :
                      gui.handles[h].open /\ gui.handles[h].path = path}
       IN  IF held # {}
           THEN gui' = [gui EXCEPT !.th[t] = [pc |-> "opened",
                                              hdf |-> CHOOSE h \in held : TRUE,
                                              m |-> 0]]
           ELSE gui' = [gui EXCEPT
                          !.handles = Append(@, [path |-> path, by |-> t,
                                                 open |-> TRUE, users |-> {}]),
                          !.th[t] = [pc |-> "opened",
                                     hdf |-> Len(gui.handles) + 1, m |-> 0]]
    /\ UNCHANGED <<viewer, hdf_vars>>

\* `with load_hdf(path) as hdf` (hdf_functions.py 44-45; hdf_plot_gui.py
\* 356, 371; get_hdf_value line 145): h5py.File makes a new handle, kept in
\* a local variable of the caller
LoadHdf(t, path) ==
    /\ gui.th[t].pc = "idle"
    /\ t # "poller"
    /\ Len(gui.handles) < MaxHandles
    /\ gui' = [gui EXCEPT
                 !.handles = Append(@, [path |-> path, by |-> t,
                                        open |-> TRUE, users |-> {}]),
                 !.th[t] = [pc |-> "opened", hdf |-> Len(gui.handles) + 1,
                            m |-> 0]]
    /\ UNCHANGED <<viewer, hdf_vars>>

\* m = map_hdf(hdf) in file_select and plot_data, on the UI thread: the
\* handle is read and a new HdfMap is made
MapHdf(t) ==
    /\ t = "ui"
    /\ gui.th[t].pc = "opened"
    /\ gui' = [gui EXCEPT
                 !.handles = UsedBy(@, gui.th[t].hdf, t),
                 !.maps = Append(@, [of |-> gui.th[t].hdf, by |-> t,
                                     users |-> {}]),
                 !.th[t] = [@ EXCEPT !.pc = "mapped",
                                     !.m = Len(gui.maps) + 1]]
    /\ UNCHANGED <<viewer, hdf_vars>>

\* gen_text(hdf, m) / gen_xy(hdf, m): format_hdf and eval_hdf on the
\* handle and the map of the caller
EvalHdf(t) ==
    /\ t = "ui"
    /\ gui.th[t].pc = "mapped"
    /\ gui' = [gui EXCEPT
                 !.handles = UsedBy(@, gui.th[t].hdf, t),
                 !.maps = UsedBy(@, gui.th[t].m, t),
                 !.th[t] = [@ EXCEPT !.pc = "evaluated"]]
    /\ UNCHANGED <<viewer, hdf_vars>>

\* get_hdf_value lines 146-150, on a dataset-update thread: the dataset is
\* read from the handle
ReadDataset(t) ==
    /\ t \in {"updater1", "updater2"}
    /\ gui.th[t].pc = "opened"
    /\ gui' = [gui EXCEPT
                 !.handles = UsedBy(@, gui.th[t].hdf, t),
                 !.th[t] = [@ EXCEPT !.pc = "read"]]
    /\ UNCHANGED <<viewer, hdf_vars>>

\* the end of the with block: the handle is closed and the locals are gone
CloseHdf(t) ==
    /\ gui.th[t].pc \in {"evaluated", "read"}
    /\ gui' = [gui EXCEPT
                 !.handles = [@ EXCEPT ![gui.th[t].hdf].open = FALSE],
                 !.th[t] = Resting]
    /\ UNCHANGED <<viewer, hdf_vars>>

\* poll_files: update_files opens no file, then the thread sleeps
PollFiles ==
    /\ gui' = [gui EXCEPT !.th["poller"].pc =
                              IF @ = "idle" THEN "sleeping" ELSE "idle"]
    /\ UNCHANGED <<viewer, hdf_vars>>

\* the application before its threads have opened any file
InitGui ==
    /\ Init
    /\ file = << Group(<< >>, NoAttrs) >>
    /\ mapper = "map_hdf"

NextThreads ==
    \/ \E t \in Threads, path \in Paths : LoadHdf(t, path)
    \/ \E t \in Threads : MapHdf(t)
    \/ \E t \in Threads : EvalHdf(t)
    \/ \E t \in Threads : ReadDataset(t)
    \/ \E t \in Threads : CloseHdf(t)
    \/ PollFiles

SpecThreads == InitGui /\ [][NextThreads]_vars

(***************************************************************************)
(* The folder plot viewer: the watched folder and the file list           *)
(***************************************************************************)

\* sorted(paths, key=mtime)
RECURSIVE SortedByTime(_, _)
SortedByTime(paths, mtime) ==
    IF paths = {} THEN << >>
    ELSE LET first == CHOOSE p \in paths :
                          \A q \in paths : mtime[p] <= mtime[q]
         IN  <<first>> \o SortedByTime(paths \ {first}, mtime)

\* seq[::-1]
Reversed(seq) == [i \in 1..Len(seq) |-> seq[Len(seq) + 1 - i]]

\* thread t of the viewer moves to pc
Goto(t, to) == [viewer EXCEPT !.call[t].pc = to]

\* a file is created in the folder: the folder's modification time moves
CreateFile(path) ==
    /\ viewer.mtime[path] = 0
    /\ viewer.now <= MaxTime
    /\ viewer' = [viewer EXCEPT !.mtime[path] = viewer.now,
                                !.folder_mtime = viewer.now,
                                !.now = @ + 1]
    /\ UNCHANGED <<gui, hdf_vars>>

\* a file of the folder is written to: only its own modification time moves
ModifyFile(path) ==
    /\ viewer.mtime[path] > 0
    /\ viewer.now <= MaxTime
    /\ viewer' = [viewer EXCEPT !.mtime[path] = viewer.now, !.now = @ + 1]
    /\ UNCHANGED <<gui, hdf_vars>>

\* add_folder lines 346-347, on the UI thread (Reload, folder selection):
\* the list is emptied and _folder_modified set to None
AddFolder ==
    /\ viewer.call["ui"].pc = "idle"
    /\ viewer' = [viewer EXCEPT !.file_list = << >>,
                                !.folder_modified = Unset,
                                !.call["ui"].pc = "stat"]
    /\ UNCHANGED <<gui, hdf_vars>>

\* poll_files line 342: the polling thread wakes and calls update_files
UpdateFiles ==
    /\ viewer.call["poller"].pc = "idle"
    /\ viewer' = Goto("poller", "stat")
    /\ UNCHANGED <<gui, hdf_vars>>

\* get_recent_files line 300: mod_time = os.stat(folder_path).st_mtime
Stat(t) ==
    /\ viewer.call[t].pc = "stat"
    /\ viewer' = [viewer EXCEPT !.call[t].pc = "test",
                                !.call[t].mod_time = viewer.folder_mtime]
    /\ UNCHANGED <<gui, hdf_vars>>

\* lines 304 and 307: the branch taken on _folder_modified
Test(t) ==
    /\ viewer.call[t].pc = "test"
    /\ viewer' = IF viewer.folder_modified = Unset THEN Goto(t, "set")
                 ELSE IF viewer.call[t].mod_time > viewer.folder_modified
                 THEN Goto(t, "scan")
                 ELSE [viewer EXCEPT !.call[t].pc = "add",
                                     !.call[t].files = << >>]
    /\ UNCHANGED <<gui, hdf_vars>>

\* lines 305-306: _folder_modified = mod_time, and every file of the
\* folder, oldest first; __init__ and add_folder reverse the list
ListFiles(t) ==
    /\ viewer.call[t].pc = "set"
    /\ LET files == SortedByTime({p \in Paths : viewer.mtime[p] > 0},
                                 viewer.mtime)
       IN  viewer' = [viewer EXCEPT
                        !.folder_modified = viewer.call[t].mod_time,
                        !.call[t].pc = "add",
                        !.call[t].files = IF t = "ui" THEN Reversed(files)
                                          ELSE files]
    /\ UNCHANGED <<gui, hdf_vars>>

\* lines 309-316: the files modified after _folder_modified, then
\* _folder_modified = mod_time.  Comparing a time with None raises
\* TypeError, which ends the thread.
Scan(t) ==
    /\ viewer.call[t].pc = "scan"
    /\ IF viewer.folder_modified = Unset
       THEN viewer' = Goto(t, "dead")
       ELSE viewer' = [viewer EXCEPT
                         !.folder_modified = viewer.call[t].mod_time,
                         !.call[t].pc = "add",
                         !.call[t].files =
                             SortedByTime({p \in Paths : viewer.mtime[p]
                                               > viewer.folder_modified},
                                          viewer.mtime)]
    /\ UNCHANGED <<gui, hdf_vars>>

\* _add_files: one file_list.insert, at the end of the list from
\* populate_file_list and at its top from update_files; with no file left
\* the call is over.  An insert of the polling thread is carried out by the
\* event loop, that is when the UI thread is in no callback.
AddFiles(t) ==
    /\ viewer.call[t].pc = "add"
    /\ t = "poller" => viewer.call["ui"].pc = "idle"
    /\ IF viewer.call[t].files = << >>
       THEN viewer' = [viewer EXCEPT !.call[t] = Waiting]
       ELSE viewer' = [viewer EXCEPT
                         !.call[t].files = Tail(@),
                         !.file_list =
                             IF t = "ui"
                             THEN Append(@, Head(viewer.call[t].files))
                             ELSE <<Head(viewer.call[t].files)>> \o @]
    /\ UNCHANGED <<gui, hdf_vars>>

NextViewer ==
    \/ \E path \in Paths : CreateFile(path)
    \/ \E path \in Paths : ModifyFile(path)
    \/ AddFolder
    \/ UpdateFiles
    \/ \E t \in {"ui", "poller"} : Stat(t)
    \/ \E t \in {"ui", "poller"} : Test(t)
    \/ \E t \in {"ui", "poller"} : ListFiles(t)
    \/ \E t \in {"ui", "poller"} : Scan(t)
    \/ \E t \in {"ui", "poller"} : AddFiles(t)

SpecViewer == InitGui /\ [][NextViewer]_vars

Next ==
    \/ LoadDefaults
    \/ Visit
    \/ Return
    \/ PostPass
    \/ \E expression \in Expressions : EvalStart(expression)
    \/ \E template \in Templates : FormatStart(template)
    \/ EvalCheck
    \/ EvalNamespace
    \/ EvalRun

Spec == Init /\ [][Next]_vars

\* the mapper called on the same open file again and again
NextBuilds ==
    \/ LoadDefaults
    \/ Visit
    \/ Return
    \/ PostPass
    \/ Rebuild

SpecBuilds == Init /\ [][NextBuilds]_vars

\* the two mappers called on the same open file, one after the other
NextBoth ==
    \/ LoadDefaults
    \/ Visit
    \/ Return
    \/ PostPass
    \/ RebuildOther

SpecBoth == Init /\ [][NextBoth]_vars

\* the methods of the map called one after another once it is built
NextOps ==
    \/ LoadDefaults
    \/ Visit
    \/ Return
    \/ PostPass
    \/ \E name \in OpNames : Get(name)
    \/ \E name \in OpNames, idx \in 1..3 : GetDataset(name, idx)
    \/ \E name \in OpNames : GetAttr(name, NX_LOCALNAME)
    \/ \E nx_class \in OpClasses : GetClass(nx_class)
    \/ MostCommonOf
    \/ \E array_size \in OpSizes : GenerateScannables(array_size)
    \/ \E expression \in {"x", "d+e"} : EvalStart(expression)
    \/ \E template \in {"{x}"} : FormatStart(template)
    \/ EvalCheck
    \/ EvalNamespace
    \/ EvalRun

SpecOps == Init /\ [][NextOps]_vars

(***************************************************************************)
(* Properties of the built map                                             *)
(***************************************************************************)

\* the element-count the map records for the dataset at address a
SizeAt(a) == hmap.datasets[a].size

\* C1: when the traversal is over (at the post-pass and in the returned
\* map) every address held in arrays or values and every key of image_data
\* is a key of datasets, the pre-seeded 'axes' and 'signal' included.
C1_AddressesAreDatasets ==
    pc \in {"postpass", "done"} /\ mapper = "map_hdf" =>
        Range(hmap.arrays) \cup Range(hmap.values) \cup DOMAIN hmap.image_data
            \subseteq DOMAIN hmap.datasets

\* the registered datasets with at least one dimension
ArrayDatasets ==
    {a \in DOMAIN hmap.datasets : Len(hmap.datasets[a].shape) >= 1}

\* how many array datasets have s elements, each dataset counted once
DatasetCount(s) == Cardinality({a \in ArrayDatasets : SizeAt(a) = s})

\* the most common element-counts > 1 among the array datasets
ModalNonUnit ==
    LET counts == {SizeAt(a) : a \in {b \in ArrayDatasets : SizeAt(b) > 1}}
    IN  {s \in counts : \A t \in counts : DatasetCount(s) >= DatasetCount(t)}

\* C2: in the map built by map_hdf the element-count of the scannables is
\* the most common element-count > 1 among the array datasets, each
\* dataset counted once, whenever that count exists and is unique.
C2_ScannableCountIsModalNonUnit ==
    pc = "done" /\ mapper = "map_hdf" /\ Cardinality(ModalNonUnit) = 1 =>
        \A k \in DOMAIN hmap.scannables :
            SizeAt(hmap.scannables[k]) \in ModalNonUnit

\* C3: in every built map scannables is a sub-mapping of arrays, its
\* members have one element-count, and every arrays entry of that
\* element-count is a member.
C3_ScannablesSubmap ==
    pc = "done" =>
        /\ \A k \in DOMAIN hmap.scannables :
               k \in DOMAIN hmap.arrays /\ hmap.scannables[k] = hmap.arrays[k]
        /\ \A k1, k2 \in DOMAIN hmap.scannables :
               SizeAt(hmap.scannables[k1]) = SizeAt(hmap.scannables[k2])
        /\ \A k \in DOMAIN hmap.arrays :
               (\E m \in DOMAIN hmap.scannables :
                    SizeAt(hmap.arrays[k]) = SizeAt(hmap.scannables[m]))
                   => k \in DOMAIN hmap.scannables

\* two arrays of 100 elements and one of 3: scannables holds the two
C3_Witness ==
    /\ pc = "done"
    /\ DOMAIN hmap.arrays = {"x", "y", "z"}
    /\ SizeAt(hmap.arrays["x"]) = 100 /\ SizeAt(hmap.arrays["y"]) = 100
    /\ SizeAt(hmap.arrays["z"]) = 3
    /\ DOMAIN hmap.scannables = {"x", "y"}

\* the dataset at a is held by no name of values or arrays and is no key
\* of image_data
Orphaned(a) ==
    a \notin Range(hmap.values) \cup Range(hmap.arrays) \cup DOMAIN hmap.image_data

\* the short name and the local_name-derived name the map registers a
\* dataset under
NamesOf(a) ==
    {hmap.datasets[a].name} \cup
        (IF NX_LOCALNAME \in DOMAIN hmap.datasets[a].attrs
         THEN {address_name(hmap.datasets[a].attrs[NX_LOCALNAME])} ELSE {})

\* C4 (as claimed): in every map built by map_hdf no key of datasets is
\* orphaned, also when datasets share a short name or local_name.
C4_NoOrphanDatasets ==
    pc = "done" /\ mapper = "map_hdf" =>
        \A a \in DOMAIN hmap.datasets : ~Orphaned(a)

\* C4 (amended): a key of datasets is orphaned only when each of its names
\* is held, in the mapping of its class, by another registered dataset
\* that carries the same name.
C4_OrphanedOnlyByCollision ==
    pc = "done" /\ mapper = "map_hdf" =>
        \A a \in DOMAIN hmap.datasets :
            Orphaned(a) =>
                LET held == IF Len(hmap.datasets[a].shape) = 0
                            THEN hmap.values ELSE hmap.arrays
                IN  \A n \in NamesOf(a) :
                        /\ n \in DOMAIN held
                        /\ held[n] # a
                        /\ held[n] \in DOMAIN hmap.datasets
                        /\ n \in NamesOf(held[n])

\* a built map with an orphaned dataset
C4_Witness ==
    /\ pc = "done" /\ mapper = "map_hdf"
    /\ \E a \in DOMAIN hmap.datasets : Orphaned(a)

\* C5: in every map built by map_hdf combined holds no address that is not
\* a key of datasets, and a name of both values and arrays resolves in
\* combined to its arrays address.
C5_CombinedResolves ==
    pc = "done" /\ mapper = "map_hdf" =>
        /\ Range(hmap.combined) \subseteq DOMAIN hmap.datasets
        /\ \A n \in DOMAIN hmap.values \cap DOMAIN hmap.arrays :
               hmap.combined[n] = hmap.arrays[n]

\* a built map with a name that values and arrays resolve differently
C5_Witness ==
    /\ pc = "done" /\ mapper = "map_hdf"
    /\ \E n \in DOMAIN hmap.values \cap DOMAIN hmap.arrays :
           hmap.values[n] # hmap.arrays[n]

(***************************************************************************)
(* Properties of eval_hdf                                                  *)
(***************************************************************************)

\* C6 (as claimed): every expression that contains 'import ' is rejected
\* with an exception before any dataset value is read and before anything
\* is evaluated or returned, whatever the file contains.
C6_ImportAlwaysRejected ==
    Contains(ev.expression, "import ") =>
        /\ ev.reads = {}
        /\ ev.pc \in {"check", "raised"}
        /\ ev.pc = "raised" => ev.exc = "Exception"

\* C6 (amended): an expression that contains 'import ' and is not itself
\* an address present in the file is rejected by the filter before any
\* dataset value is read and before anything is evaluated or returned.
C6_ImportRejectedUnlessAddress ==
    Contains(ev.expression, "import ") /\ ~InFile(file, ev.expression) =>
        /\ ev.reads = {}
        /\ ev.pc \in {"check", "raised"}
        /\ ev.pc = "raised" => ev.exc = "Exception"

\* an expression with 'import ' rejected by the filter
C6_Witness ==
    /\ Contains(ev.expression, "import ")
    /\ ~InFile(file, ev.expression)
    /\ ev.pc = "raised" /\ ev.exc = "Exception"

\* the call has ended on an expression that is both an address present in
\* the file and a name of combined
EndedOnAddressAndName ==
    /\ ev.pc \in {"returned", "raised"}
    /\ ev.expression \in DOMAIN hmap.combined
    /\ InFile(file, ev.expression)

\* C7 (as claimed): for a string that is both an address present in the
\* file and a name of combined, eval_hdf returns the value of the dataset
\* at combined[s].
C7_ShortcutAgreesWithCombined ==
    EndedOnAddressAndName =>
        /\ ev.pc = "returned"
        /\ ev.out = DataValue(ReadValue(file, hmap.combined[ev.expression]))

\* C7 (amended): for a string s that is both the address of a dataset of
\* the file and a name of combined, eval_hdf returns the value of the
\* dataset at address s; that is the dataset of combined[s] when
\* combined[s] is the address '/' + s.
C7_ShortcutReadsAddress ==
    EndedOnAddressAndName /\ ev.pc = "returned" =>
        /\ ev.out = DataValue(ReadValue(file, ev.expression))
        /\ hmap.combined[ev.expression] = SEP \o ev.expression =>
               ev.out = DataValue(ReadValue(file, hmap.combined[ev.expression]))

\* the shortcut taken on a name that combined resolves to another dataset
C7_Witness ==
    /\ EndedOnAddressAndName /\ ev.pc = "returned"
    /\ hmap.combined[ev.expression] # SEP \o ev.expression
    /\ ev.out # DataValue(ReadValue(file, hmap.combined[ev.expression]))

(***************************************************************************)
(* Properties of the walk                                                  *)
(***************************************************************************)

\* the name the claim gives an address: the last segment with '.' -> '_',
\* the segment before it when the last segment is 'value'
ClaimedName(address) ==
    LET parts == Split(Replace(address, ".", "_"), SEP)
    IN  IF Last(parts) = "value" THEN parts[Len(parts) - 1] ELSE Last(parts)

\* C8: address_name returns the last segment with every '.' replaced by
\* '_', and the parent's segment when the last segment is 'value'; the map
\* names every group and dataset so.
C8_ValueNamedAfterParent ==
    /\ \A a \in DOMAIN hmap.datasets : hmap.datasets[a].name = ClaimedName(a)
    /\ \A a \in DOMAIN hmap.groups : hmap.groups[a].name = ClaimedName(a)

\* every link of the file reachable from group g within depth d: its
\* address, its kind, its target, and whether the path to it passes a
\* soft link
RECURSIVE Reach(_, _, _, _, _)
Reach(f, g, prefix, soft, d) ==
    IF d = 0 THEN {}
    ELSE UNION {
           LET e == f[g].entries[i]
               address == prefix \o SEP \o e.key
               viaSoft == soft \/ e.link = "soft"
           IN  {[address |-> address, link |-> e.link, target |-> e.target,
                 soft |-> viaSoft]}
               \cup (IF e.target # Null /\ f[e.target].kind = "group"
                     THEN Reach(f, e.target, address, viaSoft, d - 1)
                     ELSE {}) :
           i \in 1..Len(f[g].entries) }

\* the links that resolve to a dataset
DatasetLinks ==
    {r \in Reach(file, Root, "", FALSE, RecursionLimit) :
        r.target # Null /\ file[r.target].kind = "dataset"}

\* C9: a child entry that resolves to a dataset is registered if and only
\* if it is not declared a soft link, so that no dataset is registered a
\* second time or cyclically through a soft link.
C9_SoftLinksNeverRegister ==
    mapper = "map_hdf" =>
        /\ \A a \in DOMAIN hmap.datasets :
               \E r \in DatasetLinks : r.address = a /\ r.link # "soft"
        /\ pc \in {"postpass", "done"} =>
               \A r \in DatasetLinks :
                   r.link # "soft" => r.address \in DOMAIN hmap.datasets
        /\ \A r1, r2 \in DatasetLinks :
               /\ r1.address \in DOMAIN hmap.datasets
               /\ r2.address \in DOMAIN hmap.datasets
               /\ r1.address # r2.address
               /\ r1.target = r2.target
               => ~r1.soft /\ ~r2.soft

\* NeXus default-axes resolution fails on the file
DefaultsFail ==
    \/ get_nexus_axes_datasets(file).exc # ""
    \/ Len(get_nexus_axes_datasets(file).axes) = 0

\* C10: whenever default-axes resolution fails at any step, the failure
\* does not leave map_hdf and the map goes on without pre-seeded entries.
C10_DefaultsFailureNeverPropagates ==
    mapper = "map_hdf" /\ DefaultsFail =>
        /\ ~(pc = "raised" /\ err.at = "defaults")
        /\ pc = "walk" /\ stack = <<Frame(Root, "", 1)>> =>
               hmap.arrays = EmptyDict

(***************************************************************************)
(* Attribute errors, default axes and registration                         *)
(***************************************************************************)

\* the links to groups whose attributes cannot be read
FaultyGroupLinks ==
    {r \in Reach(file, Root, "", FALSE, RecursionLimit) :
        /\ r.target # Null
        /\ file[r.target].kind = "group"
        /\ file[r.target].fault # ""}

\* C11: an I/O error raised while reading the attributes of a single group
\* never aborts the walk of map_hdf; the group is registered in groups and
\* classes with class 'Group' and the walk goes on to the end.
C11_AttrErrorNeverAbortsWalk ==
    mapper = "map_hdf" =>
        /\ ~(pc = "raised" /\ err.at = "walk" /\ err.exc = "OSError")
        /\ pc \in {"postpass", "done"} =>
               \A r \in FaultyGroupLinks :
                   /\ r.address \in DOMAIN hmap.groups
                   /\ hmap.groups[r.address].nx_class = "Group"

\* C12: when NeXus default-axes resolution succeeds, the map map_hdf
\* returns has arrays['axes'] equal to the address of the first default
\* axes dataset and arrays['signal'] equal to the address of the default
\* signal dataset, whatever other datasets the file holds.
C12_DefaultsSurviveWalk ==
    mapper = "map_hdf" /\ pc = "done" /\ ~DefaultsFail =>
        LET r == get_nexus_axes_datasets(file)
        IN  /\ NX_AXES \in DOMAIN hmap.arrays
            /\ hmap.arrays[NX_AXES] = r.axes[1].name
            /\ NX_SIGNAL \in DOMAIN hmap.arrays
            /\ hmap.arrays[NX_SIGNAL] = r.signal.name

\* the walk is about to process an entry that resolves to a dataset and is
\* no soft link
AtDataset ==
    /\ pc = "walk"
    /\ Top.idx <= Len(file[Top.obj].entries)
    /\ file[Top.obj].entries[Top.idx].target # Null
    /\ file[file[Top.obj].entries[Top.idx].target].kind = "dataset"
    /\ file[Top.obj].entries[Top.idx].link # "soft"

\* the step registers the dataset by its dimensionality under name and
\* altname
RegisteredByDimension ==
    LET e == file[Top.obj].entries[Top.idx]
        obj == file[e.target]
        address == Top.top_address \o SEP \o e.key
        name == address_name(address)
        altname == IF NX_LOCALNAME \in DOMAIN obj.attrs
                   THEN address_name(obj.attrs[NX_LOCALNAME]) ELSE name
        Holds(dict) == /\ {name, altname} \subseteq DOMAIN dict
                       /\ dict[name] = address
                       /\ dict[altname] = address
    IN  /\ address \in DOMAIN hmap'.datasets
        /\ Ndim(obj) = 0 =>
               /\ Holds(hmap'.values)
               /\ hmap'.arrays = hmap.arrays
               /\ hmap'.image_data = hmap.image_data
        /\ Ndim(obj) \in {1, 2} =>
               /\ Holds(hmap'.arrays)
               /\ hmap'.values = hmap.values
               /\ hmap'.image_data = hmap.image_data
        /\ Ndim(obj) >= 3 =>
               /\ address \in DOMAIN hmap'.image_data
               /\ Holds(hmap'.arrays)
               /\ hmap'.values = hmap.values

\* C13: when map_hdf processes a dataset that is not a soft link, it
\* registers it under its short name and its local_name-derived name: with
\* 0 dimensions in values only, with 1 or 2 dimensions in arrays only, with
\* 3 or more dimensions as a key of image_data and in arrays.
C13_RegistersByDimensionality ==
    [][mapper = "map_hdf" /\ AtDataset /\ pc' = "walk"
          => RegisteredByDimension]_vars

\* a 2-dimensional dataset has been registered in arrays under its short
\* name and its local_name, and nowhere else
C13_Witness ==
    /\ mapper = "map_hdf"
    /\ pc = "walk"
    /\ \E a \in DOMAIN hmap.datasets :
           /\ Len(hmap.datasets[a].shape) = 2
           /\ \E n, m \in DOMAIN hmap.arrays :
                  n # m /\ hmap.arrays[n] = a /\ hmap.arrays[m] = a
           /\ a \notin DOMAIN hmap.image_data
           /\ a \notin Range(hmap.values)

\* the addresses of the groups below group g, from its i-th entry on, in
\* depth-first pre-order, down to depth d
RECURSIVE GroupOrder(_, _, _, _, _)
GroupOrder(f, g, prefix, i, d) ==
    IF d = 0 \/ i > Len(f[g].entries) THEN << >>
    ELSE LET e == f[g].entries[i]
             address == prefix \o SEP \o e.key
         IN  (IF e.target # Null /\ f[e.target].kind = "group"
              THEN <<address>> \o GroupOrder(f, e.target, address, 1, d - 1)
              ELSE << >>)
             \o GroupOrder(f, g, prefix, i + 1, d)

\* C14: in every built map, classes[c] is exactly the list of the group
\* addresses a with groups[a] = (c, name), without duplicates, in
\* depth-first pre-order; every key of groups is in exactly one classes
\* list, and classes[c][0] is the first group of class c the walk met.
C14_ClassesListGroupsInOrder ==
    pc = "done" =>
        LET order == GroupOrder(file, Root, "", 1, RecursionLimit)
            OfClass(c) ==
                SelectSeq(order, LAMBDA a : hmap.groups[a].nx_class = c)
        IN  /\ DOMAIN hmap.groups = {order[i] : i \in DOMAIN order}
            /\ \A i, j \in DOMAIN order : i # j => order[i] # order[j]
            /\ DOMAIN hmap.classes =
                   {hmap.groups[a].nx_class : a \in DOMAIN hmap.groups}
            /\ \A c \in DOMAIN hmap.classes :
                   /\ hmap.classes[c] = OfClass(c)
                   /\ hmap.classes[c][1] = Head(OfClass(c))

\* a built map with a class of two groups that lie in different branches
\* of the file, and a second class
C14_Witness ==
    /\ pc = "done"
    /\ mapper = "map_hdf"
    /\ Cardinality(DOMAIN hmap.classes) >= 2
    /\ \E c \in DOMAIN hmap.classes :
           /\ Len(hmap.classes[c]) >= 2
           /\ ~Contains(hmap.classes[c][2], hmap.classes[c][1])

(***************************************************************************)
(* Building the map again                                                  *)
(***************************************************************************)

\* C15: building the map twice on the same unmodified file yields the
\* same keys and the same addresses in groups, classes, datasets, arrays,
\* values, image_data, scannables and combined; the second build is not
\* affected by the first.
C15_RebuildIsIdentical ==
    built.n > 1 /\ pc = "done" => hmap = built.first

\* a second build has returned a map with groups, values, arrays and
\* scannables, for which two sizes were equally common
C15_Witness ==
    /\ built.n = 2
    /\ pc = "done"
    /\ mapper = "map_hdf"
    /\ hmap.groups # EmptyDict
    /\ hmap.values # EmptyDict
    /\ hmap.scannables # EmptyDict
    /\ hmap.scannables # hmap.arrays
    /\ \E p \in built.picks : Cardinality(MostCommon(p.sizes)) >= 2

(***************************************************************************)
(* Properties of the namespace and of the evaluation                       *)
(***************************************************************************)

\* the call built a namespace (it did not end at the shortcut, the filter
\* or the parser)
NamespaceBuilt == ev.namespace # EmptyDict

\* the names eval_hdf hands to generate_namespace
Discovered ==
    {n \in DOMAIN hmap.combined : Contains(ev.expression, n)}
        \cup find_varnames(ev.expression)

\* the discovered names that are keys of combined
Resolved == Discovered \cap DOMAIN hmap.combined

\* C16: eval_hdf reads the values of only those datasets whose names the
\* expression references as identifiers or placeholders; a dataset whose
\* name the expression does not reference is never read.
C16_ReadsOnlyReferencedNames ==
    NamespaceBuilt =>
        \A a \in ev.reads :
            \E n \in Names(ev.expression) :
                n \in DOMAIN hmap.combined /\ hmap.combined[n] = a

\* C17: in every namespace built for eval_hdf 'filename' is the file's
\* base name, 'filepath' its full path, and '_' + n the address
\* combined[n] for every discovered name n of combined, whatever the
\* datasets of the file are called.
C17_ExtrasAlwaysBound ==
    NamespaceBuilt =>
        /\ ev.namespace["filename"] = "scan.nxs"
        /\ ev.namespace["filepath"] = FilePath
        /\ \A n \in Resolved : ev.namespace["_" \o n] = hmap.combined[n]

\* C17, amended: the same, unless 'filename', 'filepath' or '_' + n is
\* itself a discovered name of combined; the name is then bound to the
\* value of that dataset.
C17_ExtrasBoundUnlessDatasetName ==
    NamespaceBuilt =>
        LET Bound(k, v) ==
                ev.namespace[k] = IF k \in Resolved
                                  THEN ReadValue(file, hmap.combined[k])
                                  ELSE v
        IN  /\ Bound("filename", "scan.nxs")
            /\ Bound("filepath", FilePath)
            /\ \A n \in Resolved : Bound("_" \o n, hmap.combined[n])

\* a namespace in which 'filename' is the value of a dataset of that name
\* and '_filename' its address
C17_Witness ==
    /\ ev.pc = "eval"
    /\ "filename" \in Resolved
    /\ ev.namespace["filename"] = ReadValue(file, hmap.combined["filename"])
    /\ ev.namespace["filename"] # "scan.nxs"
    /\ ev.namespace["_filename"] = hmap.combined["filename"]
    /\ ev.namespace["filepath"] = FilePath

\* the names of the expression that the claim of C18 says get the default
Unknown ==
    Names(ev.expression)
        \ (GLOBALS_NAMELIST \cup DOMAIN hmap.combined
              \cup {"filename", "filepath"})

\* C18: every identifier of the expression that is neither a builtin, nor
\* np, nor a key of combined, nor 'filename' or 'filepath' is bound to the
\* default '--', so that no name of the expression is left unbound.
C18_UnknownNamesGetDefault ==
    NamespaceBuilt =>
        /\ Names(ev.expression) \ GLOBALS_NAMELIST \subseteq DOMAIN ev.namespace
        /\ \A t \in Unknown :
               t \in DOMAIN ev.namespace /\ ev.namespace[t] = "--"

\* C18, amended: the same, except that an identifier '_' + n, where n is
\* a discovered name of combined, is bound to the address combined[n].
C18_UnknownNamesGetDefaultUnlessAlias ==
    NamespaceBuilt =>
        /\ Names(ev.expression) \ GLOBALS_NAMELIST \subseteq DOMAIN ev.namespace
        /\ \A t \in Unknown :
               /\ t \in DOMAIN ev.namespace
               /\ ev.namespace[t] = IF \E n \in Resolved : t = "_" \o n
                                    THEN hmap.combined[SubSeq(t, 2, Len(t))]
                                    ELSE "--"

\* a namespace with an unknown name bound to the default beside a name
\* bound to a dataset value
C18_Witness ==
    /\ ev.pc = "eval"
    /\ \E t \in Unknown : ev.namespace[t] = "--"
    /\ \E n \in Names(ev.expression) \cap Resolved :
           ev.namespace[n] = ReadValue(file, hmap.combined[n])

\* the text the caller handed to eval_hdf or to format_hdf
OriginalText == IF ev.wrapped THEN Body(ev.expression) ELSE ev.expression

\* the call failed on a syntax error, or on a type error at evaluation
EvaluationFailed ==
    /\ ev.pc = "raised"
    /\ \/ ev.exc = "SyntaxError"
       \/ ev.exc = "TypeError" /\ NamespaceBuilt

C21_BuiltMapNeverChanges ==
    [][pc = "done" => hmap' = hmap]_vars

(***************************************************************************)
(* Links to ancestors                                                      *)
(***************************************************************************)

\* every link of the file resolves to an object
NoDangling(f) ==
    \A g \in DOMAIN f : \A i \in DOMAIN f[g].entries :
        f[g].entries[i].target # Null

\* C23: the walk of map_hdf runs to completion or raises an I/O error on
\* every finite file, also when a group holds a soft or hard link to one of
\* its own ancestors: no other exception leaves the walk of a file whose
\* links all resolve.
C23_WalkCompletesOrRaisesIOError ==
    mapper = "map_hdf" /\ NoDangling(file) /\ pc = "raised" /\ err.at = "walk"
        => err.exc = "OSError"

(***************************************************************************)
(* The default entry and data group                                        *)
(***************************************************************************)

\* the root's children that are groups and that no group precedes
FirstGroup(f) ==
    {i \in DOMAIN f[Root].entries :
        /\ f[Root].entries[i].target # Null
        /\ f[f[Root].entries[i].target].kind = "group"
        /\ \A j \in 1..(i - 1) :
               \/ f[Root].entries[j].target = Null
               \/ f[f[Root].entries[j].target].kind # "group"}

\* the axes and signal found from the root's first group, the data group
\* being the entry's child 'measurement' when the entry names no default
FromFirstGroup(f) ==
    LET key == f[Root].entries[CHOOSE i \in FirstGroup(f) : TRUE].key
        nx_entry == GetItem(f, Ref(Root, SEP), key).ref
        nx_data == IF "default" \in DOMAIN f[nx_entry.obj].attrs
                   THEN NxDataOf(f, nx_entry)
                   ELSE GetItem(f, nx_entry, "measurement")
    IN  IF nx_data.exc # "" THEN Failed(nx_data.exc)
        ELSE NxFields(f, nx_data.ref)

\* C24: when the file has no top-level 'default' attribute,
\* get_nexus_axes_datasets takes the first group of the file as entry (a
\* root dataset that precedes it is not taken), and the entry's child
\* 'measurement' as data group when the entry has no 'default' attribute:
\* what map_hdf found, or was raised, is what the first group gives.
C24_EntryIsFirstGroup ==
    /\ mapper = "map_hdf"
    /\ pc # "defaults"
    /\ "default" \notin DOMAIN file[Root].attrs
    /\ FirstGroup(file) # {}
    => /\ get_nexus_axes_datasets(file) = FromFirstGroup(file)
       /\ \/ FromFirstGroup(file).exc = "KeyError"
          \/ FromFirstGroup(file).exc = "" /\ Len(FromFirstGroup(file).axes) > 0
          => err.at # "defaults"

(***************************************************************************)
(* Files without arrays                                                    *)
(***************************************************************************)

\* the walk is over and found no dataset of at least one dimension; for
\* HdfMap2, none of more than one element
NothingToScan ==
    /\ pc = "done" \/ (pc = "raised" /\ err.at = "postpass")
    /\ \A a \in DOMAIN hmap.datasets :
           \/ Len(hmap.datasets[a].shape) = 0
           \/ mapper = "HdfMap2" /\ hmap.datasets[a].size <= 1

\* C25: for a file with no dataset of at least one dimension (and, for
\* HdfMap2, also when every array dataset has one element or none),
\* map_hdf and HdfMap2 return a map with empty scannables instead of
\* raising.
C25_NoArraysGivesEmptyScannables ==
    NothingToScan => pc = "done" /\ hmap.scannables = EmptyDict

(***************************************************************************)
(* Children that do not resolve                                            *)
(***************************************************************************)

\* the walk is about to look at a key that resolves to no object
AtDangling ==
    /\ pc = "walk"
    /\ Top.idx <= Len(file[Top.obj].entries)
    /\ file[Top.obj].entries[Top.idx].target = Null

\* C26: the walk does not abort at a child name that resolves to no object
\* (a dangling soft link, an external link to a missing file): the entry
\* is skipped, the map is left as it was and the walk goes on to the next
\* key.
C26_DanglingLinkIsSkipped ==
    [][AtDangling => pc' = "walk" /\ hmap' = hmap /\ stack' = Advanced]_vars

(***************************************************************************)
(* The shortcut on the address of a group                                  *)
(***************************************************************************)

\* s is the address of a group of the file
GroupAddress(s) ==
    /\ InFile(file, s)
    /\ file[Resolve(file, Ref(Root, SEP), s).obj].kind = "group"

\* C27: eval_hdf takes the direct-address shortcut only for the address of
\* a dataset: a call whose expression is the address of a group of the
\* file goes on to the safety filter and the normal name resolution.
C27_ShortcutOnlyForDatasets ==
    [][AtRest /\ ev'.pc # "idle" /\ GroupAddress(ev'.expression)
          => ev'.pc = "check"]_vars

(***************************************************************************)
(* The two mappers                                                         *)
(***************************************************************************)

\* both mappers were called on the file and the second call is over
BothBuilt ==
    /\ built.n > 1
    /\ built.by # mapper
    /\ pc \in {"done", "raised"}

\* one size is the most common, with and without the sizes of 1
NoTie(hm) ==
    /\ Cardinality(MostCommon(array_sizes(hm))) = 1
    /\ Cardinality(MostCommon(array_sizes_gt1(hm))) = 1

\* C28: for every file HdfMap2(file) and map_hdf(file) produce the same
\* groups, classes, datasets, arrays, values, image_data, scannables and
\* combined (scannables and combined are compared where the most common
\* size is unique, so that the choice among equally common sizes does not
\* decide).
C28_MappersAgree ==
    BothBuilt =>
        /\ pc = "done"
        /\ hmap.groups = built.first.groups
        /\ hmap.classes = built.first.classes
        /\ hmap.datasets = built.first.datasets
        /\ hmap.arrays = built.first.arrays
        /\ hmap.values = built.first.values
        /\ hmap.image_data = built.first.image_data
        /\ NoTie(hmap) => /\ hmap.scannables = built.first.scannables
                          /\ hmap.combined = built.first.combined

(***************************************************************************)
(* What the safety filter rejects                                          *)
(***************************************************************************)

\* the words of the code of s: its names and keywords, attribute names
\* left out
Words(s) ==
    UNION { { SubSeq(c, i, RunEnd(c, i)) : i \in NameStarts(c) } :
            c \in CodeOf(s) }

\* C29: the safety filter rejects an expression or template only when it
\* holds an import statement or an access to the os or sys modules: an
\* expression that names datasets, np, or attributes of datasets is never
\* rejected.
C29_RejectsOnlyImportsAndOsSys ==
    ev.pc = "raised" /\ ev.exc = "Exception" =>
        Words(ev.expression) \cap {"import", "os", "sys"} # {}

(***************************************************************************)
(* Handles and maps are never shared between threads                       *)
(***************************************************************************)

\* C22: in every interleaving of the dataset-update threads and the polling
\* thread with the UI thread, each mapping, evaluation or dataset read uses
\* a file handle opened by that same invocation and a map built by it: no
\* open file handle and no HdfMap is ever used by two threads.
C22_HandlesAndMapsNeverShared ==
    /\ \A h \in DOMAIN gui.handles :
           gui.handles[h].users \subseteq {gui.handles[h].by}
    /\ \A m \in DOMAIN gui.maps :
           /\ gui.maps[m].users \subseteq {gui.maps[m].by}
           /\ gui.handles[gui.maps[m].of].by = gui.maps[m].by
    /\ \A t \in Threads :
           /\ gui.th[t].hdf # 0 =>
                  /\ gui.handles[gui.th[t].hdf].by = t
                  /\ gui.handles[gui.th[t].hdf].open
           /\ gui.th[t].m # 0 =>
                  /\ gui.maps[gui.th[t].m].by = t
                  /\ gui.maps[gui.th[t].m].of = gui.th[t].hdf
    /\ \A t, u \in Threads :
           t # u /\ gui.th[t].hdf # 0 => gui.th[t].hdf # gui.th[u].hdf

\* the UI thread has evaluated on its handle and its map while a
\* dataset-update thread has read the same file through a handle of its own
C22_Witness ==
    /\ gui.th["ui"].pc = "evaluated"
    /\ gui.th["updater1"].pc = "read"
    /\ gui.handles[gui.th["ui"].hdf].path
           = gui.handles[gui.th["updater1"].hdf].path
    /\ gui.maps[gui.th["ui"].m].users = {"ui"}
    /\ gui.th["poller"].pc = "sleeping"

(***************************************************************************)
(* The file list of the folder plot viewer                                 *)
(***************************************************************************)

\* C30: under every interleaving of the polling thread's update_files with
\* add_folder on the UI thread and with files being created or modified in
\* the watched folder, each file path appears at most once in the file
\* list.
C30_EachPathListedOnce ==
    \A i, j \in DOMAIN viewer.file_list :
        i # j => viewer.file_list[i] # viewer.file_list[j]

====
